---- MODULE Spec2Model ----
(***************************************************************************)
(* A model of epub_toc: the TOCItem node (validation, to_dict, from_dict), *)
(* the structure validator and the EPUBTOCParser session (construction,    *)
(* extract_toc with its ordered fallback over the extraction methods).     *)
(***************************************************************************)
EXTENDS Integers, Sequences, FiniteSets, TLC

VARIABLES
    \* ---- EPUBTOCParser session ----
    extraction_methods, \* the list given to __init__: <<>> for None, <<list>> otherwise
    epub_file,          \* what epub_path points to on disk
    archive,            \* what each extraction method yields on this archive
    init_exc,           \* the exception __init__ ended with (NoExc when it returned)
    zip_opened,         \* whether __init__ opened the file as a ZIP archive
    active_methods,     \* self.active_methods
    toc,                \* self.toc: <<>> for None, <<list of TOCItem>> otherwise
    pc,                 \* position of the caller: idle, loop, returned, raised
    idx,                \* position of extract_toc's for loop in active_methods
    errors,             \* extract_toc's local dict errors, in insertion order
    invoked,            \* the methods the running (or last) extract_toc call has invoked
    ret,                \* value the last extract_toc call returned: <<>> or <<list of dicts>>
    exc,                \* exception the last extract_toc call raised
    calls,              \* number of extract_toc calls started
    succeeded,          \* <<>> until an extract_toc call returns, then <<which call, its result>>
    io,                 \* what the last save_toc_to_json / print_toc call since the last
                        \* extract_toc call raised, wrote and printed
    \* ---- TOCItem construction and (de)serialisation ----
    ipc,                \* position of the TOCItem scenario
    iarg,               \* the input of the scenario (constructor arguments or a mapping)
    iobj,               \* <<>> or <<the TOCItem built>>
    idict,              \* <<>> or <<the mapping produced by to_dict>>
    iback,              \* <<>> or <<the TOCItem rebuilt by from_dict>>
    iexc,               \* the exception the last TOCItem operation raised
    \* ---- one extraction method (or _validate_file) run on one input ----
    bkind,              \* which operation runs
    binput,             \* what it reads: the library's data, the tool's output, the XML
    bpc,                \* position of the run: ready, in_with, exiting, done (off: unused)
    bres,               \* what the last run returned (<<>> until a run has ended)
    handles,            \* number of ZipFile objects on the archive that are open
    bcalls              \* number of runs started

session_vars == <<extraction_methods, epub_file, archive, init_exc, zip_opened,
                  active_methods,
                  toc, pc, idx, errors, invoked, ret, exc, calls, succeeded, io>>
item_vars == <<ipc, iarg, iobj, idict, iback, iexc>>
backend_vars == <<bkind, binput, bpc, bres, handles, bcalls>>
vars == <<session_vars, item_vars, backend_vars>>

(***************************************************************************)
(* Python values.  A value carries its type: k is "str", "int", "float" or *)
(* "none"; a str is the sequence s of its characters, an int is n, and the *)
(* float PyFloat(n) stands for n + 0.5.                                      *)
(***************************************************************************)
PyStr(s) == [k |-> "str", s |-> s, n |-> 0]
PyInt(n) == [k |-> "int", s |-> <<>>, n |-> n]
PyFloat(n) == [k |-> "float", s |-> <<>>, n |-> n]
PyNone == [k |-> "none", s |-> <<>>, n |-> 0]

\* Python truthiness: `not v` is ~Truthy(v).
Truthy(v) ==
    CASE v.k = "str" -> Len(v.s) > 0
      [] v.k = "int" -> v.n # 0
      [] v.k = "float" -> TRUE
      [] OTHER -> FALSE

IsSpace(c) == c \in {" ", "\n"}

\* str.strip(): the string without its leading and trailing whitespace.
RECURSIVE LStrip(_)
LStrip(s) == IF s # <<>> /\ IsSpace(Head(s)) THEN LStrip(Tail(s)) ELSE s

RECURSIVE RStrip(_)
RStrip(s) ==
    IF s # <<>> /\ IsSpace(s[Len(s)]) THEN RStrip(SubSeq(s, 1, Len(s) - 1)) ELSE s

Strip(s) == RStrip(LStrip(s))

\* Optional values: <<>> is None, <<x>> is x.
NONE == <<>>
Some(x) == <<x>>

Range(s) == {s[i] : i \in 1..Len(s)}

(***************************************************************************)
(* Exceptions: the class, the message, the path a validator message names  *)
(* (0-based indices: item[i]->child[j]...) and, for ExtractionError, the   *)
(* "- name: error" lines of the message.                                   *)
(***************************************************************************)
Raise(cls, msg) == [exc |-> cls, msg |-> msg, path |-> <<>>, details |-> <<>>]
RaiseAt(cls, path, msg) == [exc |-> cls, msg |-> msg, path |-> path, details |-> <<>>]
NoExc == Raise("none", "")

(***************************************************************************)
(* TOCItem                                                                 *)
(***************************************************************************)
validate_fields(title, href, level) ==
    IF ~Truthy(title) \/ title.k # "str"
    THEN Raise("ValidationError", "Title must be a non-empty string")
    ELSE IF href.k # "str"
    THEN Raise("ValidationError", "Href must be a string")
    ELSE IF level.k # "int" \/ level.n < 0
    THEN Raise("ValidationError", "Level must be a non-negative integer")
    ELSE NoExc

\* TOCItem(title, href, level, children): the exception raised, or the new
\* object with description None.
TOCItem(title, href, level, children) ==
    LET e == validate_fields(title, href, level) IN
    IF e # NoExc
    THEN [exc |-> e, val |-> NONE]
    ELSE [exc |-> NoExc,
          val |-> Some([title |-> title, href |-> href, level |-> level,
                        children |-> children, description |-> PyNone])]

\* to_dict without its `if self.description is not None` branch.
RECURSIVE to_dict_drops_description(_)
to_dict_drops_description(item) ==
    [title |-> item.title, href |-> item.href, level |-> item.level,
     children |-> [i \in 1..Len(item.children) |->
                      to_dict_drops_description(item.children[i])]]

RECURSIVE to_dict(_)
to_dict(item) ==
    LET result == [title |-> item.title, href |-> item.href, level |-> item.level,
                   children |-> [i \in 1..Len(item.children) |->
                                    to_dict(item.children[i])]]
    IN IF item.description # PyNone
       THEN [title |-> result.title, href |-> result.href, level |-> result.level,
             children |-> result.children, description |-> item.description]
       ELSE result

REQUIRED_FIELDS == {"title", "href", "level"}

\* data.get(key, default)
Get(data, key, default) == IF key \in DOMAIN data THEN data[key] ELSE default

\* The first exception among a sequence of results, or NoExc.
RECURSIVE FirstExc(_)
FirstExc(rs) ==
    IF rs = <<>> THEN NoExc
    ELSE IF Head(rs).exc # NoExc THEN Head(rs).exc
    ELSE FirstExc(Tail(rs))

\* from_dict without its `if 'description' in data` branch.
RECURSIVE from_dict_no_description(_)
from_dict_no_description(data) ==
    IF REQUIRED_FIELDS \ DOMAIN data # {}
    THEN [exc |-> Raise("ValidationError", "Missing required fields"), val |-> NONE]
    ELSE
      LET kids == Get(data, "children", <<>>)
          rs == [i \in 1..Len(kids) |-> from_dict_no_description(kids[i])]
      IN IF FirstExc(rs) # NoExc
         THEN [exc |-> FirstExc(rs), val |-> NONE]
         ELSE TOCItem(data.title, data.href, data.level,
                      [i \in 1..Len(rs) |-> rs[i].val[1]])

RECURSIVE from_dict(_)
from_dict(data) ==
    IF REQUIRED_FIELDS \ DOMAIN data # {}
    THEN [exc |-> Raise("ValidationError", "Missing required fields"), val |-> NONE]
    ELSE
      LET kids == Get(data, "children", <<>>)
          rs == [i \in 1..Len(kids) |-> from_dict(kids[i])]
      IN IF FirstExc(rs) # NoExc
         THEN [exc |-> FirstExc(rs), val |-> NONE]
         ELSE LET r == TOCItem(data.title, data.href, data.level,
                               [i \in 1..Len(rs) |-> rs[i].val[1]])
              IN IF r.exc # NoExc THEN r
                 ELSE IF "description" \in DOMAIN data
                 THEN [exc |-> NoExc,
                       val |-> Some([r.val[1] EXCEPT !.description = data.description])]
                 ELSE r

(***************************************************************************)
(* EPUBTOCParser._validate_toc_structure                                   *)
(* Every element of a candidate is a TOCItem object (the methods return    *)
(* Optional[List[TOCItem]]), so the isinstance tests pass; what is left is *)
(* the emptiness test and the recursive level test.  The first violation   *)
(* in the code's traversal order is the one raised.                        *)
(***************************************************************************)
RECURSIVE validate_item(_, _)
RECURSIVE validate_children(_, _, _)

\* The loop without the recursive call on the child.
RECURSIVE validate_children_shallow(_, _, _)
validate_children_shallow(item, path, i) ==
    IF i > Len(item.children) THEN NoExc
    ELSE IF item.children[i].level.n <= item.level.n
    THEN RaiseAt("ValidationError", path \o <<i - 1>>,
                 "Child level must be greater than parent level")
    ELSE validate_children_shallow(item, path, i + 1)

\* The loop `for i, child in enumerate(item.children)` from its i-th round on.
validate_children(item, path, i) ==
    IF i > Len(item.children) THEN NoExc
    ELSE LET child == item.children[i]
             e == validate_item(child, path \o <<i - 1>>)
         IN IF e # NoExc THEN e
            ELSE IF child.level.n <= item.level.n
            THEN RaiseAt("ValidationError", path \o <<i - 1>>,
                         "Child level must be greater than parent level")
            ELSE validate_children(item, path, i + 1)

validate_item(item, path) == validate_children(item, path, 1)

RECURSIVE validate_items(_, _)
validate_items(toc_items, i) ==
    IF i > Len(toc_items) THEN NoExc
    ELSE LET e == validate_item(toc_items[i], <<i - 1>>)
         IN IF e # NoExc THEN e ELSE validate_items(toc_items, i + 1)

validate_toc_structure(toc_items) ==
    IF toc_items = <<>>
    THEN Raise("ValidationError", "TOC cannot be empty")
    ELSE validate_items(toc_items, 1)

(***************************************************************************)
(* EPUBTOCParser: the class attribute, the file checks and the constructor *)
(***************************************************************************)
EXTRACTION_METHODS ==
    << [name |-> "epub_meta", attr |-> "_extract_from_epub_meta"],
       [name |-> "ncx", attr |-> "_extract_from_ncx"],
       [name |-> "opf", attr |-> "_extract_from_opf"],
       [name |-> "ebooklib", attr |-> "_extract_from_ebooklib"],
       [name |-> "tika", attr |-> "_extract_from_tika"],
       [name |-> "calibre", attr |-> "_extract_from_calibre"] >>

MethodNames == {EXTRACTION_METHODS[i].name : i \in 1..Len(EXTRACTION_METHODS)}

\* str.lower() on the suffixes of the model.
Lower(suffix) == IF suffix = ".EPUB" THEN ".epub" ELSE suffix

\* _validate_file without its `if not self.epub_path.exists()` test.
path_check_no_exists_test(f) ==
    IF Lower(f.suffix) # ".epub" THEN Raise("ValidationError", "Not an EPUB file")
    ELSE IF f.is_dir THEN Raise("ValidationError", "Path points to a directory")
    ELSE NoExc

\* The three tests _validate_file makes on the path before it opens anything.
path_check(f) ==
    IF ~f.exists THEN Raise("ValidationError", "File not found")
    ELSE IF Lower(f.suffix) # ".epub" THEN Raise("ValidationError", "Not an EPUB file")
    ELSE IF f.is_dir THEN Raise("ValidationError", "Path points to a directory")
    ELSE NoExc

\* The try block without its `except Exception` clause: what is raised inside
\* propagates as it is.
zip_check_no_catch_all(f) ==
    IF ~f.exists THEN Raise("FileNotFoundError", "No such file or directory")
    ELSE IF f.is_dir THEN Raise("IsADirectoryError", "Is a directory")
    ELSE CASE f.content = "not_zip" ->
                Raise("StructureError", "File is not a valid ZIP archive")
           [] f.content = "no_container" ->
                Raise("StructureError", "Missing required files")
           [] f.content = "container_not_xml" ->
                Raise("XMLSyntaxError", "Start tag expected")
           [] f.content = "no_rootfiles" ->
                Raise("StructureError", "No rootfiles found in container.xml")
           [] OTHER -> NoExc

\* The try block of _validate_file: zipfile.ZipFile(self.epub_path) and the
\* checks on META-INF/container.xml.  BadZipFile becomes StructureError, and so
\* does every other exception, the StructureError raised inside included.
zip_check(f) ==
    IF ~f.exists
    THEN Raise("StructureError", "Invalid EPUB structure: No such file or directory")
    ELSE IF f.is_dir
    THEN Raise("StructureError", "Invalid EPUB structure: Is a directory")
    ELSE CASE f.content = "not_zip" ->
                Raise("StructureError", "File is not a valid ZIP archive")
           [] f.content = "no_container" ->
                Raise("StructureError", "Invalid EPUB structure: Missing required files")
           [] f.content = "container_not_xml" ->
                Raise("StructureError", "Invalid EPUB structure: XMLSyntaxError")
           [] f.content = "no_rootfiles" ->
                Raise("StructureError",
                      "Invalid EPUB structure: No rootfiles found in container.xml")
           [] OTHER -> NoExc

\* _validate_file on a path whose target is f: the exception it raises, and
\* whether it got as far as opening the file as a ZIP archive.
validate_file_full(f) ==
    IF path_check(f) # NoExc
    THEN [exc |-> path_check(f), opened |-> FALSE]
    ELSE [exc |-> zip_check(f), opened |-> TRUE]

validate_file(f) == validate_file_full(f).exc

\* __init__ with self._validate_file() called before the methods are set up.
EPUBTOCParser_file_first(f, em) ==
    IF validate_file(f) # NoExc
    THEN [exc |-> validate_file(f), active |-> <<>>,
          opened |-> validate_file_full(f).opened]
    ELSE IF em # NONE /\ em[1] = <<>>
    THEN [exc |-> Raise("ValidationError", "No extraction methods specified"),
          active |-> <<>>, opened |-> TRUE]
    ELSE IF em # NONE /\ SelectSeq(EXTRACTION_METHODS,
                                   LAMBDA m : m.name \in Range(em[1])) = <<>>
    THEN [exc |-> Raise("ValidationError", "No valid extraction methods found"),
          active |-> <<>>, opened |-> TRUE]
    ELSE [exc |-> NoExc, opened |-> TRUE,
          active |-> IF em # NONE
                     THEN SelectSeq(EXTRACTION_METHODS, LAMBDA m : m.name \in Range(em[1]))
                     ELSE EXTRACTION_METHODS]

\* The list comprehension written over the requested list: one entry per
\* occurrence of a known name.
SelectActive_per_occurrence(names) ==
    LET Pair(n) == CHOOSE m \in Range(EXTRACTION_METHODS) : m.name = n
        known == SelectSeq(names, LAMBDA n : n \in MethodNames)
    IN [i \in 1..Len(known) |-> Pair(known[i])]

\* The list comprehension of __init__: the known methods whose name is in the list.
SelectActive(names) ==
    SelectSeq(EXTRACTION_METHODS, LAMBDA m : m.name \in Range(names))

\* __init__(epub_path, extraction_methods): the exception it ends with and the
\* value self.active_methods has by then (<<>> while unassigned or empty), and
\* whether the file was opened.
EPUBTOCParser(f, em) ==
    IF em # NONE /\ em[1] = <<>>
    THEN [exc |-> Raise("ValidationError", "No extraction methods specified"),
          active |-> <<>>, opened |-> FALSE]
    ELSE IF em # NONE /\ SelectActive(em[1]) = <<>>
    THEN [exc |-> Raise("ValidationError", "No valid extraction methods found"),
          active |-> <<>>, opened |-> FALSE]
    ELSE [exc |-> validate_file(f), opened |-> validate_file_full(f).opened,
          active |-> IF em # NONE THEN SelectActive(em[1]) ELSE EXTRACTION_METHODS]

(***************************************************************************)
(* Inputs of the session: the method list, the file and the archive        *)
(***************************************************************************)
MaxListLen == 2   \* longest extraction_methods list given to __init__
MaxPresent == 3   \* most methods that yield anything but None on one archive
MaxCalls == 2     \* most extract_toc calls made on one session

SeqsUpTo(S, n) == UNION {[1..k -> S] : k \in 0..n}

\* Names a caller may put in the list: the first two and the last of
\* EXTRACTION_METHODS, and one that is no method.
RequestNames == {"epub_meta", "ncx", "calibre", "bogus"}

MethodLists == {NONE} \cup {Some(l) : l \in SeqsUpTo(RequestNames, MaxListLen)}

Suffixes == {".epub", ".EPUB", ".txt"}
Contents == {"not_zip", "no_container", "container_not_xml", "no_rootfiles", "epub"}

\* What the path may point to: nothing, a directory, a file that is no archive
\* under each suffix, or a file named .epub with some content.
Files ==
    {[exists |-> FALSE, suffix |-> sf, is_dir |-> FALSE, content |-> "not_zip"] :
        sf \in Suffixes}
    \cup {[exists |-> TRUE, suffix |-> sf, is_dir |-> TRUE, content |-> "not_zip"] :
        sf \in Suffixes}
    \cup {[exists |-> TRUE, suffix |-> sf, is_dir |-> FALSE, content |-> "not_zip"] :
        sf \in Suffixes}
    \cup {[exists |-> TRUE, suffix |-> ".epub", is_dir |-> FALSE, content |-> c] :
        c \in Contents}

\* TOCItem objects of the candidate trees, built by the constructor.
Node(t, h, l, ch) == TOCItem(PyStr(t), PyStr(h), PyInt(l), ch).val[1]

\* A three-level tree with clean fields.
TreeNested ==
    << Node(<<"A">>, <<"a">>, 0,
            << Node(<<"B">>, <<"b">>, 1, << Node(<<"C">>, <<"c">>, 2, <<>>) >>) >>),
       Node(<<"D">>, <<"d">>, 0, <<>>) >>

\* A flat list: an item without href at level 1, an item with a blank title.
TreeFlat == << Node(<<"A">>, <<>>, 1, <<>>), Node(<<" ">>, <<"b">>, 0, <<>>) >>

\* A tree whose only level violation is two levels down.
TreeBadLevel ==
    << Node(<<"A">>, <<"a">>, 0,
            << Node(<<"B">>, <<"b">>, 1, << Node(<<"C">>, <<"c">>, 1, <<>>) >>) >>) >>

\* What `method()` does in extract_toc.  The method is looked up by name with
\* getattr and is declared to return Optional[List[TOCItem]]: it returns None,
\* a list (possibly empty, possibly one the validator rejects), or raises; the
\* loop body has a branch for each.  One archive fixes the outcome of each
\* method for the life of the session.
Returns(v) == [kind |-> "return", val |-> v, msg |-> ""]
Raises(msg) == [kind |-> "raise", val |-> NONE, msg |-> msg]
Absent == Returns(NONE)
\* The method's own `except Exception as e:` clause: it logs msg and returns None.
Swallowed(msg) == [kind |-> "return", val |-> NONE, msg |-> msg]

PresentOutcomes ==
    {Returns(Some(<<>>)), Raises("boom"), Swallowed("XMLSyntaxError"),
     Returns(Some(TreeNested)), Returns(Some(TreeFlat)), Returns(Some(TreeBadLevel))}

\* The archives on which exactly the methods of P yield something.
ArchivesWith(P) ==
    {[n \in MethodNames |-> IF n \in P THEN g[n] ELSE Absent] : g \in [P -> PresentOutcomes]}

\* The sets of methods, among those a session with `active` can invoke, that
\* yield something on one archive.
PresentSets(active) ==
    {Q \in SUBSET {active[i].name : i \in 1..Len(active)} : Cardinality(Q) <= MaxPresent}

\* No save_toc_to_json or print_toc call yet.
NoIO == [op |-> "none", exc |-> NoExc, doc |-> NONE, out |-> <<>>]

NoArgs == [title |-> PyNone, href |-> PyNone, level |-> PyNone, children |-> <<>>]

ItemIdle ==
    /\ ipc = "off" /\ iarg = NoArgs /\ iobj = NONE /\ idict = NONE /\ iback = NONE
    /\ iexc = NoExc

BackendIdle ==
    /\ bkind = "none" /\ binput = <<>> /\ bpc = "off" /\ bres = NONE
    /\ handles = 0 /\ bcalls = 0

\* The state after EPUBTOCParser(epub_path, extraction_methods).
Init ==
    /\ extraction_methods \in MethodLists
    /\ epub_file \in Files
    /\ LET r == EPUBTOCParser(epub_file, extraction_methods) IN
         /\ init_exc = r.exc
         /\ zip_opened = r.opened
         /\ active_methods = r.active
         /\ \E P \in (IF r.exc = NoExc THEN PresentSets(r.active) ELSE {{}}) :
               archive \in ArchivesWith(P)
    /\ toc = NONE
    /\ pc = "idle" /\ idx = 0 /\ errors = <<>> /\ invoked = <<>>
    /\ ret = NONE /\ exc = NoExc /\ calls = 0 /\ succeeded = NONE
    /\ io = NoIO
    /\ ItemIdle
    /\ BackendIdle

(***************************************************************************)
(* extract_toc, one step per round of its loop                             *)
(***************************************************************************)
\* errors[name] = msg on an insertion-ordered dict.
SetItem(d, name, e) ==
    IF \E i \in 1..Len(d) : d[i].name = name
    THEN [i \in 1..Len(d) |-> IF d[i].name = name THEN [name |-> name, error |-> e] ELSE d[i]]
    ELSE Append(d, [name |-> name, error |-> e])

\* `if result is not None:` in place of `if result:`.
ResultNotNone(v) == v # NONE

\* `if result:` on what a method returned.
ResultTruthy(v) == v # NONE /\ v[1] # <<>>

ToDicts(items) == [i \in 1..Len(items) |-> to_dict(items[i])]

\* extract_toc with a `self.toc = None` at its start.
ExtractBegin_resets_toc ==
    /\ init_exc = NoExc
    /\ pc \in {"idle", "returned", "raised"}
    /\ calls < MaxCalls
    /\ pc' = "loop" /\ idx' = 1 /\ errors' = <<>> /\ invoked' = <<>>
    /\ ret' = NONE /\ exc' = NoExc /\ calls' = calls + 1
    /\ io' = NoIO
    /\ toc' = NONE
    /\ UNCHANGED <<extraction_methods, epub_file, archive, init_exc, zip_opened,
                   active_methods,
                   succeeded, item_vars, backend_vars>>

\* A caller of the constructed session calls extract_toc.
ExtractBegin ==
    /\ init_exc = NoExc
    /\ pc \in {"idle", "returned", "raised"}
    /\ calls < MaxCalls
    /\ pc' = "loop" /\ idx' = 1 /\ errors' = <<>> /\ invoked' = <<>>
    /\ ret' = NONE /\ exc' = NoExc /\ calls' = calls + 1
    /\ io' = NoIO
    /\ UNCHANGED <<extraction_methods, epub_file, archive, init_exc, zip_opened,
                   active_methods,
                   toc, succeeded, item_vars, backend_vars>>

InLoop == pc = "loop" /\ idx <= Len(active_methods)

\* The loop run over reversed(self.active_methods).
CurrentReversed == active_methods[Len(active_methods) + 1 - idx]

\* The (method_name, method_attr) pair of this round of the loop.
Current == active_methods[idx]
\* result = method()
Outcome == archive[Current.name]

\* The method is called a second time when its first result is None or empty.
TryMethodAbsent_retries_once ==
    /\ InLoop
    /\ Outcome.kind = "return" /\ ~ResultTruthy(Outcome.val)
    /\ invoked' = Append(invoked, Current.name)
    /\ idx' = IF Current.name \in Range(invoked) THEN idx + 1 ELSE idx
    /\ UNCHANGED <<extraction_methods, epub_file, archive, init_exc, zip_opened,
                   active_methods,
                   toc, pc, errors, ret, exc, calls, succeeded, io, item_vars, backend_vars>>

\* The method returns None or an empty list: nothing is recorded.
TryMethodAbsent ==
    /\ InLoop
    /\ Outcome.kind = "return" /\ ~ResultTruthy(Outcome.val)
    /\ invoked' = Append(invoked, Current.name)
    /\ idx' = idx + 1
    /\ UNCHANGED <<extraction_methods, epub_file, archive, init_exc, zip_opened,
                   active_methods,
                   toc, pc, errors, ret, exc, calls, succeeded, io, item_vars, backend_vars>>

\* The loop body without its try/except: what the method raises ends the call.
TryMethodRaises_propagates ==
    /\ InLoop
    /\ Outcome.kind = "raise"
    /\ invoked' = Append(invoked, Current.name)
    /\ exc' = Raise("Exception", Outcome.msg)
    /\ pc' = "raised"
    /\ UNCHANGED <<extraction_methods, epub_file, archive, init_exc, zip_opened,
                   active_methods,
                   toc, idx, errors, ret, calls, succeeded, io, item_vars, backend_vars>>

\* The method raises: the except clause records str(e).
TryMethodRaises ==
    /\ InLoop
    /\ Outcome.kind = "raise"
    /\ invoked' = Append(invoked, Current.name)
    /\ errors' = SetItem(errors, Current.name, Raise("Exception", Outcome.msg))
    /\ idx' = idx + 1
    /\ UNCHANGED <<extraction_methods, epub_file, archive, init_exc, zip_opened,
                   active_methods,
                   toc, pc, ret, exc, calls, succeeded, io, item_vars, backend_vars>>

\* The loop body without its try/except: the validator's ValidationError ends
\* the call.
TryMethodInvalid_propagates ==
    /\ InLoop
    /\ Outcome.kind = "return" /\ ResultTruthy(Outcome.val)
    /\ validate_toc_structure(Outcome.val[1]) # NoExc
    /\ invoked' = Append(invoked, Current.name)
    /\ exc' = validate_toc_structure(Outcome.val[1])
    /\ pc' = "raised"
    /\ UNCHANGED <<extraction_methods, epub_file, archive, init_exc, zip_opened,
                   active_methods,
                   toc, idx, errors, ret, calls, succeeded, io, item_vars, backend_vars>>

\* The method returns a list the validator rejects: the except clause records it.
TryMethodInvalid ==
    /\ InLoop
    /\ Outcome.kind = "return" /\ ResultTruthy(Outcome.val)
    /\ validate_toc_structure(Outcome.val[1]) # NoExc
    /\ invoked' = Append(invoked, Current.name)
    /\ errors' = SetItem(errors, Current.name, validate_toc_structure(Outcome.val[1]))
    /\ idx' = idx + 1
    /\ UNCHANGED <<extraction_methods, epub_file, archive, init_exc, zip_opened,
                   active_methods,
                   toc, pc, ret, exc, calls, succeeded, io, item_vars, backend_vars>>

\* The method returns a list the validator accepts: it is stored and returned.
TryMethodAccepted ==
    /\ InLoop
    /\ Outcome.kind = "return" /\ ResultTruthy(Outcome.val)
    /\ validate_toc_structure(Outcome.val[1]) = NoExc
    /\ invoked' = Append(invoked, Current.name)
    /\ toc' = Some(Outcome.val[1])
    /\ ret' = Some(ToDicts(Outcome.val[1]))
    /\ succeeded' = IF succeeded = NONE
                    THEN Some([call |-> calls, result |-> ToDicts(Outcome.val[1])])
                    ELSE succeeded
    /\ pc' = "returned"
    /\ UNCHANGED <<extraction_methods, epub_file, archive, init_exc, zip_opened,
                   active_methods,
                   idx, errors, exc, calls, io, item_vars, backend_vars>>

\* The loop is over: ExtractionError with one "- name: error" line per entry.
AllFailed ==
    /\ pc = "loop" /\ idx > Len(active_methods)
    /\ exc' = [exc |-> "ExtractionError", msg |-> "All extraction methods failed:",
               path |-> <<>>, details |-> errors]
    /\ pc' = "raised"
    /\ UNCHANGED <<extraction_methods, epub_file, archive, init_exc, zip_opened,
                   active_methods,
                   toc, idx, errors, invoked, ret, calls, succeeded, io, item_vars, backend_vars>>

(***************************************************************************)
(* save_toc_to_json and print_toc                                          *)
(* A JSON document is a tree of values: a string, a number, null, an array *)
(* of values, or an object, whose members are kept as the sequence of      *)
(* their keys and the sequence of their values, in the order written.      *)
(***************************************************************************)
JStr(s) == [j |-> "string", text |-> s, num |-> 0, keys |-> <<>>, items |-> <<>>]
JNum(n) == [j |-> "number", text |-> <<>>, num |-> n, keys |-> <<>>, items |-> <<>>]
JNull == [j |-> "null", text |-> <<>>, num |-> 0, keys |-> <<>>, items |-> <<>>]
JArr(vs) == [j |-> "array", text |-> <<>>, num |-> 0, keys |-> <<>>, items |-> vs]
JObj(ks, vs) == [j |-> "object", text |-> <<>>, num |-> 0, keys |-> ks, items |-> vs]

\* json.dump of a str, an int or None (ensure_ascii=False: the characters of a
\* string are written as they are).
json_scalar(v) ==
    CASE v.k = "str" -> JStr(v.s)
      [] v.k = "int" -> JNum(v.n)
      [] OTHER -> JNull

\* The keys of a mapping built by to_dict, in the order to_dict inserts them.
DictKeys(d) ==
    SelectSeq(<<"title", "href", "level", "children", "description">>,
              LAMBDA k : k \in DOMAIN d)

\* json.dump of a mapping built by to_dict, and of a list of them.
RECURSIVE json_dump_dict(_)
json_dump_dict(d) ==
    JObj(DictKeys(d),
         [i \in 1..Len(DictKeys(d)) |->
            IF DictKeys(d)[i] = "children"
            THEN JArr([c \in 1..Len(d.children) |-> json_dump_dict(d.children[c])])
            ELSE json_scalar(d[DictKeys(d)[i]])])

json_dump(dicts) == JArr([i \in 1..Len(dicts) |-> json_dump_dict(dicts[i])])

\* json.load of a document: strings, numbers, null, lists and dicts again.
RECURSIVE json_load(_)
json_load(v) ==
    CASE v.j = "string" -> PyStr(v.text)
      [] v.j = "number" -> PyInt(v.num)
      [] v.j = "null" -> PyNone
      [] v.j = "array" -> [i \in 1..Len(v.items) |-> json_load(v.items[i])]
      [] v.j = "object" ->
           [k \in Range(v.keys) |->
              json_load(v.items[CHOOSE i \in 1..Len(v.keys) : v.keys[i] = k])]

\* `if not self.toc:`
toc_missing(t) == t = NONE \/ t[1] = <<>>

\* The document written for the first item of self.toc alone.
SavedDocument_first_item(items) == json_dump(ToDicts(SubSeq(items, 1, 1)))

\* json.dump([item.to_dict() for item in self.toc], f, ...)
SavedDocument(items) == json_dump(ToDicts(items))

\* '  ' * level
Indent(level) == [i \in 1..(2 * level) |-> " "]

\* print_item(item, level): the lines it prints, the item's then its children's.
RECURSIVE print_item(_, _)
RECURSIVE print_items(_, _)
print_item(item, level) ==
    << Indent(level) \o <<"-", " ">> \o item.title.s >>
        \o print_items(item.children, level + 1)
print_items(items, level) ==
    IF items = <<>> THEN <<>>
    ELSE print_item(Head(items), level) \o print_items(Tail(items), level)

\* A caller of the constructed session calls save_toc_to_json(output_path) on a
\* path that can be written.
SaveToc ==
    /\ init_exc = NoExc
    /\ pc \in {"idle", "returned", "raised"}
    /\ io' = IF toc_missing(toc)
             THEN [op |-> "save", exc |-> Raise("ValidationError", "TOC not extracted"),
                   doc |-> NONE, out |-> <<>>]
             ELSE [op |-> "save", exc |-> NoExc,
                   doc |-> Some(SavedDocument(toc[1])), out |-> <<>>]
    /\ UNCHANGED <<extraction_methods, epub_file, archive, init_exc, zip_opened,
                   active_methods,
                   toc, pc, idx, errors, invoked, ret, exc, calls, succeeded, item_vars, backend_vars>>

\* print_toc without its `if not self.toc` test: on None the header is printed
\* and the for loop raises TypeError.
PrintToc_unguarded ==
    /\ init_exc = NoExc
    /\ pc \in {"idle", "returned", "raised"}
    /\ io' = IF toc = NONE
             THEN [op |-> "print", exc |-> Raise("TypeError", "object is not iterable"),
                   doc |-> NONE, out |-> << <<>>, <<"Table of Contents:">> >>]
             ELSE [op |-> "print", exc |-> NoExc, doc |-> NONE,
                   out |-> << <<>>, <<"Table of Contents:">> >> \o print_items(toc[1], 0)]
    /\ UNCHANGED <<extraction_methods, epub_file, archive, init_exc, zip_opened,
                   active_methods,
                   toc, pc, idx, errors, invoked, ret, exc, calls, succeeded, item_vars, backend_vars>>

\* A caller of the constructed session calls print_toc().
PrintToc ==
    /\ init_exc = NoExc
    /\ pc \in {"idle", "returned", "raised"}
    /\ io' = IF toc_missing(toc)
             THEN [op |-> "print", exc |-> Raise("ValidationError", "TOC not extracted"),
                   doc |-> NONE, out |-> <<>>]
             ELSE [op |-> "print", exc |-> NoExc, doc |-> NONE,
                   out |-> << <<>>, <<"Table of Contents:">> >> \o print_items(toc[1], 0)]
    /\ UNCHANGED <<extraction_methods, epub_file, archive, init_exc, zip_opened,
                   active_methods,
                   toc, pc, idx, errors, invoked, ret, exc, calls, succeeded, item_vars, backend_vars>>

Next ==
    \/ ExtractBegin
    \/ TryMethodAbsent
    \/ TryMethodRaises
    \/ TryMethodInvalid
    \/ TryMethodAccepted
    \/ AllFailed
    \/ SaveToc
    \/ PrintToc

Spec == Init /\ [][Next]_vars

\* A step of the for loop of extract_toc, or the raise after it.
LoopStep ==
    \/ TryMethodAbsent
    \/ TryMethodRaises
    \/ TryMethodInvalid
    \/ TryMethodAccepted
    \/ AllFailed

\* extract_toc runs in its caller's thread and waits for nothing but the
\* method it has called: once in the loop, the next step is taken.
SpecFair == Spec /\ WF_vars(LoopStep)

(***************************************************************************)
(* TOCItem scenarios: TOCItem(...) on arguments, from_dict on a mapping,   *)
(* then to_dict on the object and from_dict on what to_dict gave.          *)
(***************************************************************************)
MaxKids == 2   \* most children of the top-level node of an input

Titles == {PyStr(<<>>), PyStr(<<"A">>), PyNone}
Hrefs == {PyStr(<<>>), PyStr(<<"a">>), PyNone}
Levels == {PyInt(-1), PyInt(0), PyInt(1), PyFloat(0)}
Descriptions == {NONE, Some(PyNone), Some(PyStr(<<"d">>))}   \* NONE: no such key

\* The mapping with these fields; d is <<>> (no description key) or <<value>>.
MkMap(t, h, l, d, kids) ==
    IF d = NONE
    THEN [title |-> t, href |-> h, level |-> l, children |-> kids]
    ELSE [title |-> t, href |-> h, level |-> l, children |-> kids, description |-> d[1]]

Maps(T, H, L, D, K) == {MkMap(t, h, l, d, kids) : t \in T, h \in H, l \in L, d \in D, kids \in K}

WithoutKey(m, key) == [x \in DOMAIN m \ {key} |-> m[x]]

GrandMaps ==
    Maps({PyStr(<<"C">>)}, {PyStr(<<"c">>)}, {PyInt(2)}, {NONE, Some(PyStr(<<"d">>))}, {<<>>})

ChildMaps ==
    Maps({PyStr(<<"B">>), PyStr(<<>>)}, {PyStr(<<"b">>)}, {PyInt(1)},
         {NONE, Some(PyStr(<<"d">>))}, SeqsUpTo(GrandMaps, 1))

\* Top-level mappings with up to n children.
TopMaps(n) == Maps(Titles, Hrefs, Levels, Descriptions, SeqsUpTo(ChildMaps, n))

\* Mappings as a caller may hand them to from_dict: also without some key.
InputMaps(n) ==
    TopMaps(n)
    \cup {WithoutKey(m, "children") : m \in {x \in TopMaps(0) : x.children = <<>>}}
    \cup {WithoutKey(m, k) : m \in Maps(Titles, Hrefs, Levels, {NONE}, {<<>>}),
                             k \in REQUIRED_FIELDS}

\* TOCItem objects a caller may pass as children: those from_dict builds.
ChildItems == {from_dict(m).val[1] : m \in {x \in ChildMaps : from_dict(x).exc = NoExc}}

InputArgs(n) ==
    {[title |-> t, href |-> h, level |-> l, children |-> kids] :
        t \in Titles, h \in Hrefs, l \in Levels, kids \in SeqsUpTo(ChildItems, n)}

SessionIdle ==
    /\ extraction_methods = NONE
    /\ epub_file = [exists |-> FALSE, suffix |-> ".epub", is_dir |-> FALSE,
                    content |-> "not_zip"]
    /\ archive \in ArchivesWith({})
    /\ init_exc = NoExc /\ zip_opened = FALSE /\ active_methods = <<>> /\ toc = NONE
    /\ pc = "off" /\ idx = 0 /\ errors = <<>> /\ invoked = <<>>
    /\ ret = NONE /\ exc = NoExc /\ calls = 0 /\ succeeded = NONE
    /\ io = NoIO

InitItem ==
    /\ SessionIdle
    /\ \/ ipc = "args" /\ iarg \in InputArgs(MaxKids)
       \/ ipc = "data" /\ iarg \in InputMaps(MaxKids)
    /\ iobj = NONE /\ idict = NONE /\ iback = NONE /\ iexc = NoExc
    /\ BackendIdle

\* TOCItem(title, href, level, children)
New ==
    /\ ipc = "args"
    /\ LET r == TOCItem(iarg.title, iarg.href, iarg.level, iarg.children) IN
         /\ iobj' = r.val
         /\ iexc' = r.exc
         /\ ipc' = IF r.exc = NoExc THEN "built" ELSE "failed"
    /\ UNCHANGED <<iarg, idict, iback, session_vars, backend_vars>>

\* TOCItem.from_dict(data)
FromDict ==
    /\ ipc = "data"
    /\ LET r == from_dict(iarg) IN
         /\ iobj' = r.val
         /\ iexc' = r.exc
         /\ ipc' = IF r.exc = NoExc THEN "built" ELSE "failed"
    /\ UNCHANGED <<iarg, idict, iback, session_vars, backend_vars>>

\* item.to_dict()
ToDict ==
    /\ ipc = "built"
    /\ idict' = Some(to_dict(iobj[1]))
    /\ ipc' = "dict"
    /\ UNCHANGED <<iarg, iobj, iback, iexc, session_vars, backend_vars>>

\* TOCItem.from_dict(item.to_dict())
FromDictBack ==
    /\ ipc = "dict"
    /\ LET r == from_dict(idict[1]) IN
         /\ iback' = r.val
         /\ iexc' = r.exc
         /\ ipc' = "back"
    /\ UNCHANGED <<iarg, iobj, idict, session_vars, backend_vars>>

NextItem == New \/ FromDict \/ ToDict \/ FromDictBack

SpecItem == InitItem /\ [][NextItem]_vars

(***************************************************************************)
(* The extraction methods, each run on what it reads                       *)
(***************************************************************************)
MaxItems == 3   \* most entries of a flat list, most lines of the tool's output
MaxRuns == 2    \* most runs of one operation on one input

\* dict.get(key, default) on an optional field.
GetOpt(o, default) == IF o = NONE THEN default ELSE o[1]

\* The list the path leads to: <<>> is the forest itself, <<i, j>> the children
\* of the j-th child of its i-th item.
RECURSIVE ListAt(_, _)
ListAt(forest, path) ==
    IF path = <<>> THEN forest ELSE ListAt(forest[Head(path)].children, Tail(path))

\* list.append(node) on the list the path leads to.
RECURSIVE AppendAt(_, _, _)
AppendAt(forest, path, node) ==
    IF path = <<>> THEN Append(forest, node)
    ELSE [forest EXCEPT ![Head(path)].children = AppendAt(@, Tail(path), node)]

\* `level <= stack[-1][1]` for a number: PyFloat(n) is n + 0.5.
NumLE(v, t) == IF v.k = "int" THEN v.n <= t ELSE v.n < t

\* `while level <= stack[-1][1]: stack.pop()`: the stack left, or <<>> when
\* the stack ran empty and stack[-1] raised IndexError.
RECURSIVE PopWhile(_, _)
PopWhile(stack, level) ==
    IF stack = <<>> THEN <<>>
    ELSE IF NumLE(level, stack[Len(stack)].level)
    THEN PopWhile(SubSeq(stack, 1, Len(stack) - 1), level)
    ELSE stack

\* The for loop of _extract_from_epub_meta and of _extract_from_calibre over
\* (title, href, level) entries: result is the forest built so far, stack the
\* (list, level) pairs, a list being named by its path in the forest.
RECURSIVE stack_loop(_, _, _)
stack_loop(entries, result, stack) ==
    IF entries = <<>> THEN [exc |-> NoExc, val |-> Some(result)]
    ELSE
      LET e == Head(entries) IN
      IF e.level.k \notin {"int", "float"}
      THEN [exc |-> Raise("TypeError", "'<=' not supported"), val |-> NONE]
      ELSE
        LET st == PopWhile(stack, e.level) IN
        IF st = <<>>
        THEN [exc |-> Raise("IndexError", "list index out of range"), val |-> NONE]
        ELSE
          LET r == TOCItem(e.title, e.href, e.level, <<>>) IN
          IF r.exc # NoExc THEN [exc |-> r.exc, val |-> NONE]
          ELSE
            LET top == st[Len(st)]
                grown == AppendAt(result, top.path, r.val[1])
            IN stack_loop(Tail(entries), grown,
                          Append(st, [path |-> Append(top.path, Len(ListAt(grown, top.path))),
                                      level |-> e.level.n]))

\* result = []; stack = [(result, -1)]
build_tree(entries) == stack_loop(entries, <<>>, << [path |-> <<>>, level |-> -1] >>)

\* The (title, href, level) the loop of _extract_from_epub_meta reads from an
\* item of the library's list.
MetaEntry(item) ==
    [title |-> GetOpt(item.title, PyStr(<<>>)),
     href |-> GetOpt(item.src, PyStr(<<>>)),
     level |-> GetOpt(item.level, PyInt(0))]

\* _extract_from_epub_meta with a try/except around each item of the loop, an
\* item that fails being left out.
extract_from_epub_meta_skips_bad(meta_toc) ==
    IF meta_toc = NONE \/ meta_toc[1] = <<>> THEN Absent
    ELSE LET entries == [i \in 1..Len(meta_toc[1]) |-> MetaEntry(meta_toc[1][i])]
             kept == SelectSeq(entries, LAMBDA e : build_tree(<<e>>).exc = NoExc)
             r == build_tree(kept)
         IN IF r.exc # NoExc THEN Swallowed(r.exc.msg) ELSE Returns(r.val)

\* _extract_from_epub_meta on metadata.get('toc'): <<>> when there is none.
extract_from_epub_meta(meta_toc) ==
    IF meta_toc = NONE \/ meta_toc[1] = <<>> THEN Absent
    ELSE LET r == build_tree([i \in 1..Len(meta_toc[1]) |-> MetaEntry(meta_toc[1][i])])
         IN IF r.exc # NoExc THEN Swallowed(r.exc.msg) ELSE Returns(r.val)

\* str.split(sep), for a separator of one or more characters.
RECURSIVE SplitAcc(_, _, _)
SplitAcc(s, sep, cur) ==
    IF s = <<>> THEN <<cur>>
    ELSE IF Len(s) >= Len(sep) /\ SubSeq(s, 1, Len(sep)) = sep
    THEN <<cur>> \o SplitAcc(SubSeq(s, Len(sep) + 1, Len(s)), sep, <<>>)
    ELSE SplitAcc(Tail(s), sep, Append(cur, Head(s)))

Split(s, sep) == SplitAcc(s, sep, <<>>)

Arrow == <<" ", "-", ">", " ">>

\* The (title, href, level) the loop of _extract_from_calibre reads from a line.
CalibreEntry(line) ==
    LET parts == Split(Strip(line), Arrow) IN
    [title |-> PyStr(Strip(parts[1])),
     href |-> PyStr(IF Len(parts) > 1 THEN Strip(parts[2]) ELSE <<>>),
     level |-> PyInt(Len(line) - Len(LStrip(line)))]

\* _extract_from_calibre on the completed process: its exit status and stdout.
extract_from_calibre(proc) ==
    IF proc.exit # 0 THEN Swallowed("CalledProcessError")
    ELSE IF Strip(proc.stdout) = <<>> THEN Absent
    ELSE
      LET lines == SelectSeq(Split(Strip(proc.stdout), <<"\n">>),
                             LAMBDA l : Strip(l) # <<>>)
          r == build_tree([i \in 1..Len(lines) |-> CalibreEntry(lines[i])])
      IN IF r.exc # NoExc THEN Swallowed(r.exc.msg)
         ELSE IF r.val[1] = <<>> THEN Absent
         ELSE Returns(r.val)

\* The values of the results that are not None, in order.
Present(os) ==
    LET kept == SelectSeq(os, LAMBDA o : o # NONE) IN [i \in 1..Len(kept) |-> kept[i][1]]

RECURSIVE process_nav_point(_, _)

\* process_nav_point that puts the first child of a navPoint without a label
\* in its place.
process_nav_point_promotes(nav, level) ==
    IF nav.label = NONE \/ nav.label[1] = <<>>
    THEN IF nav.kids = <<>> THEN NONE ELSE process_nav_point(nav.kids[1], level)
    ELSE TOCItem(PyStr(nav.label[1]), PyStr(GetOpt(nav.href, <<>>)), PyInt(level),
                 Present([i \in 1..Len(nav.kids) |->
                             process_nav_point(nav.kids[i], level + 1)])).val

\* process_nav_point(nav_point, level): <<>> for None, <<TOCItem>> otherwise.
\* nav.label is <<>> when there is no navLabel/text element, <<text>> otherwise;
\* the title is then a non-empty str, so TOCItem(...) does not raise.
process_nav_point(nav, level) ==
    IF nav.label = NONE \/ nav.label[1] = <<>> THEN NONE
    ELSE TOCItem(PyStr(nav.label[1]), PyStr(GetOpt(nav.href, <<>>)), PyInt(level),
                 Present([i \in 1..Len(nav.kids) |->
                             process_nav_point(nav.kids[i], level + 1)])).val

\* The body of the with block of _extract_from_ncx, and the except clause
\* around it.
extract_from_ncx(ncx) ==
    IF ncx.file = "missing" THEN Absent
    ELSE IF ncx.file = "malformed" THEN Swallowed("XMLSyntaxError")
    ELSE
      LET result == IF ncx.nav_map = NONE THEN <<>>
                    ELSE Present([i \in 1..Len(ncx.nav_map[1]) |->
                                     process_nav_point(ncx.nav_map[1][i], 0)])
      IN IF result = <<>> THEN Absent ELSE Returns(Some(result))

\* `x or ''`
OrEmpty(v) == IF Truthy(v) THEN v ELSE PyStr(<<>>)

\* process_toc_item(item, level): the exception raised, or the TOCItem.  A
\* tuple is (section, children); the item's own TOCItem is built first.
RECURSIVE process_toc_item(_, _)
process_toc_item(item, level) ==
    LET r == TOCItem(item.title, OrEmpty(item.href), PyInt(level), <<>>) IN
    IF r.exc # NoExc \/ ~item.tuple THEN r
    ELSE LET rs == [i \in 1..Len(item.kids) |-> process_toc_item(item.kids[i], level + 1)]
         IN IF FirstExc(rs) # NoExc THEN [exc |-> FirstExc(rs), val |-> NONE]
            ELSE [exc |-> NoExc,
                  val |-> Some([r.val[1] EXCEPT
                                  !.children = [i \in 1..Len(rs) |-> rs[i].val[1]]])]

\* _extract_from_ebooklib on book.toc.
extract_from_ebooklib(book_toc) ==
    IF book_toc = <<>> THEN Absent
    ELSE LET rs == [i \in 1..Len(book_toc) |-> process_toc_item(book_toc[i], 0)]
         IN IF FirstExc(rs) # NoExc THEN Swallowed(FirstExc(rs).msg)
            ELSE Returns(Some([i \in 1..Len(rs) |-> rs[i].val[1]]))

RECURSIVE process_tika_item(_, _)

\* process_tika_item that gives the children the level of their parent.
process_tika_item_same_level(item, level) ==
    LET kids == GetOpt(item.children, <<>>)
        rs == [i \in 1..Len(kids) |-> process_tika_item(kids[i], level)]
    IN IF FirstExc(rs) # NoExc THEN [exc |-> FirstExc(rs), val |-> NONE]
       ELSE TOCItem(GetOpt(item.title, PyStr(<<>>)), GetOpt(item.href, PyStr(<<>>)),
                    PyInt(level), [i \in 1..Len(rs) |-> rs[i].val[1]])

\* process_tika_item(item, level): the children are built before the item.
process_tika_item(item, level) ==
    LET kids == GetOpt(item.children, <<>>)
        rs == [i \in 1..Len(kids) |-> process_tika_item(kids[i], level + 1)]
    IN IF FirstExc(rs) # NoExc THEN [exc |-> FirstExc(rs), val |-> NONE]
       ELSE TOCItem(GetOpt(item.title, PyStr(<<>>)), GetOpt(item.href, PyStr(<<>>)),
                    PyInt(level), [i \in 1..Len(rs) |-> rs[i].val[1]])

\* _extract_from_tika on parsed['metadata']: <<>> when it has no 'toc' key.
extract_from_tika(toc_data) ==
    IF toc_data = NONE THEN Absent
    ELSE LET rs == [i \in 1..Len(toc_data[1]) |-> process_tika_item(toc_data[1][i], 0)]
         IN IF FirstExc(rs) # NoExc THEN Swallowed(FirstExc(rs).msg)
            ELSE IF rs = <<>> THEN Absent
            ELSE Returns(Some([i \in 1..Len(rs) |-> rs[i].val[1]]))

\* f'Chapter {i+1}' for the i-th itemref counted from 0: k is i + 1.
ChapterTitle(k) == PyStr(<<"C", "h", "a", "p", "t", "e", "r", " ", ToString(k)>>)

\* `if item_id and href:` on an attribute that may be missing.
HasText(o) == o # NONE /\ o[1] # ""

\* id_to_href: the manifest items with an id and an href, a later item
\* replacing an earlier one with the same id.
InManifest(manifest, idref) ==
    /\ idref # NONE
    /\ \E i \in 1..Len(manifest) :
          HasText(manifest[i].id) /\ HasText(manifest[i].href) /\ manifest[i].id = idref

HrefOf(manifest, idref) ==
    LET last == CHOOSE i \in 1..Len(manifest) :
                   /\ HasText(manifest[i].id) /\ HasText(manifest[i].href)
                   /\ manifest[i].id = idref
                   /\ \A j \in (i + 1)..Len(manifest) :
                         ~(HasText(manifest[j].href) /\ manifest[j].id = idref)
    IN manifest[last].href[1]

\* The body of the with block of _extract_from_opf, and the except clause
\* around it.
extract_from_opf(opf) ==
    IF opf.file = "missing" THEN Absent
    ELSE IF opf.file = "malformed" THEN Swallowed("XMLSyntaxError")
    ELSE IF opf.spine = NONE \/ opf.manifest = NONE THEN Absent
    ELSE
      LET result ==
            Present([i \in 1..Len(opf.spine[1]) |->
                       IF InManifest(opf.manifest[1], opf.spine[1][i])
                       THEN TOCItem(ChapterTitle(i),
                                    PyStr(<<HrefOf(opf.manifest[1], opf.spine[1][i])>>),
                                    PyInt(0), <<>>).val
                       ELSE NONE])
      IN IF result = <<>> THEN Absent ELSE Returns(Some(result))

(***************************************************************************)
(* Inputs of the runs                                                      *)
(***************************************************************************)
\* Items of the list epub_meta hands over: with or without a title, with a
\* level that is missing, negative, an int, a float or a str.
MetaItems ==
    {[title |-> t, src |-> Some(PyStr(<<"a">>)), level |-> l] :
        t \in {Some(PyStr(<<"A">>)), Some(PyStr(<<"B">>)), Some(PyStr(<<>>))},
        l \in {NONE, Some(PyInt(-1)), Some(PyInt(0)), Some(PyInt(1)), Some(PyInt(2)),
               Some(PyFloat(1)), Some(PyStr(<<"1">>))}}

MetaTocs(n) == {NONE} \cup {Some(l) : l \in SeqsUpTo(MetaItems, n)}

\* Lines the tool prints: `title -> href` lines, a line without the arrow and
\* a blank line, each behind 0 to 2 spaces.
LineTexts ==
    {<<"A">> \o Arrow \o <<"a">>, <<"B">> \o Arrow \o <<"b">>, <<"A">>, <<>>}

ToolLines == {[indent |-> k, text |-> t] : k \in 0..2, t \in LineTexts}

\* The text of a line, and the lines joined by newlines as the tool prints them.
LineChars(l) == [i \in 1..l.indent |-> " "] \o l.text

RECURSIVE JoinLines(_)
JoinLines(ls) ==
    IF ls = <<>> THEN <<>>
    ELSE IF Len(ls) = 1 THEN LineChars(ls[1])
    ELSE LineChars(ls[1]) \o <<"\n">> \o JoinLines(Tail(ls))

ToolRuns(n) == {[exit |-> x, lines |-> ls] : x \in {0, 1}, ls \in SeqsUpTo(ToolLines, n)}

\* The completed process _extract_from_calibre gets from subprocess.run.
Proc(run) == [exit |-> run.exit, stdout |-> JoinLines(run.lines)]

\* Entries of a table of contents as a source holds them: a label (<<>> when
\* there is none), a link (<<>> when there is none) and nested entries.
Src(label, href, kids) == [label |-> label, href |-> href, kids |-> kids]

SrcLeaf(c) == Src(Some(<<c>>), Some(<<c>>), <<>>)

SourceTrees ==
    {SrcLeaf("A"),
     Src(Some(<<"B">>), NONE, <<>>),
     Src(NONE, Some(<<"x">>), <<>>),
     Src(Some(<<>>), Some(<<"y">>), <<SrcLeaf("C")>>),
     Src(Some(<<"A">>), Some(<<"a">>),
         <<Src(Some(<<"B">>), Some(<<"b">>), <<SrcLeaf("C")>>)>>),
     Src(Some(<<"A">>), Some(<<"a">>),
         <<Src(NONE, Some(<<"x">>), <<SrcLeaf("C")>>), SrcLeaf("D")>>)}

SourceForests(n) == SeqsUpTo(SourceTrees, n)

\* The toc.ncx of the archive: no such file, a file that is not XML, or a
\* document with or without a navMap of navPoints.
NcxFiles(n) ==
    {[file |-> f, nav_map |-> NONE] : f \in {"missing", "malformed", "ok"}}
    \cup {[file |-> "ok", nav_map |-> Some(f)] : f \in SourceForests(n)}

\* An entry as ebooklib holds it: a Link, or a (Section, children) tuple.
RECURSIVE BookItem(_)
BookItem(t) ==
    [tuple |-> t.kids # <<>>,
     title |-> IF t.label = NONE THEN PyNone ELSE PyStr(t.label[1]),
     href |-> IF t.href = NONE THEN PyNone ELSE PyStr(t.href[1]),
     kids |-> [i \in 1..Len(t.kids) |-> BookItem(t.kids[i])]]

BookTocs(n) == {[i \in 1..Len(f) |-> BookItem(f[i])] : f \in SourceForests(n)}

\* An entry as Tika's metadata holds it: a dict that may lack any of its keys.
RECURSIVE TikaItem(_)
TikaItem(t) ==
    [title |-> IF t.label = NONE THEN NONE ELSE Some(PyStr(t.label[1])),
     href |-> IF t.href = NONE THEN NONE ELSE Some(PyStr(t.href[1])),
     children |-> IF t.kids = <<>> THEN NONE
                  ELSE Some([i \in 1..Len(t.kids) |-> TikaItem(t.kids[i])])]

TikaTocs(n) ==
    {NONE} \cup {Some([i \in 1..Len(f) |-> TikaItem(f[i])]) : f \in SourceForests(n)}

\* The idref of a spine itemref: of a manifest item, of none, or missing.
IdRefs == {Some("x"), Some("y"), Some("z"), NONE}

\* Manifests: none, one whose items have id and href, one with an item
\* without href.
Manifests ==
    {NONE,
     Some(<<[id |-> Some("x"), href |-> Some("x.html")],
            [id |-> Some("y"), href |-> Some("y.html")]>>),
     Some(<<[id |-> Some("x"), href |-> Some("x.html")],
            [id |-> Some("y"), href |-> NONE]>>)}

\* The .opf file of the archive: no such file, a file that is not XML, or a
\* package document with or without spine and manifest.
OpfFiles(n) ==
    {[file |-> f, spine |-> NONE, manifest |-> NONE] : f \in {"missing", "malformed"}}
    \cup {[file |-> "ok", spine |-> sp, manifest |-> m] :
            sp \in {NONE} \cup {Some(l) : l \in SeqsUpTo(IdRefs, n)}, m \in Manifests}

InitBackend ==
    /\ SessionIdle
    /\ ItemIdle
    /\ \/ bkind = "epub_meta" /\ binput \in MetaTocs(MaxItems)
       \/ bkind = "calibre" /\ binput \in ToolRuns(MaxItems)
       \/ bkind = "ncx" /\ binput \in NcxFiles(MaxItems)
       \/ bkind = "ebooklib" /\ binput \in BookTocs(MaxItems)
       \/ bkind = "tika" /\ binput \in TikaTocs(MaxItems)
       \/ bkind = "opf" /\ binput \in OpfFiles(MaxItems)
       \/ bkind = "validate" /\ binput \in Files
    /\ bpc = "ready" /\ bres = NONE /\ handles = 0 /\ bcalls = 1

\* self._extract_from_epub_meta()
CallEpubMeta ==
    /\ bpc = "ready" /\ bkind = "epub_meta"
    /\ bres' = Some(extract_from_epub_meta(binput))
    /\ bpc' = "done"
    /\ UNCHANGED <<bkind, binput, handles, bcalls, session_vars, item_vars>>

\* self._extract_from_calibre()
CallCalibre ==
    /\ bpc = "ready" /\ bkind = "calibre"
    /\ bres' = Some(extract_from_calibre(Proc(binput)))
    /\ bpc' = "done"
    /\ UNCHANGED <<bkind, binput, handles, bcalls, session_vars, item_vars>>

\* self._extract_from_ebooklib()
CallEbooklib ==
    /\ bpc = "ready" /\ bkind = "ebooklib"
    /\ bres' = Some(extract_from_ebooklib(binput))
    /\ bpc' = "done"
    /\ UNCHANGED <<bkind, binput, handles, bcalls, session_vars, item_vars>>

\* self._extract_from_tika()
CallTika ==
    /\ bpc = "ready" /\ bkind = "tika"
    /\ bres' = Some(extract_from_tika(binput))
    /\ bpc' = "done"
    /\ UNCHANGED <<bkind, binput, handles, bcalls, session_vars, item_vars>>

\* `with zipfile.ZipFile(self.epub_path, 'r') as epub:` is entered.
OpenZip ==
    /\ bpc = "ready"
    /\ \/ bkind \in {"ncx", "opf"}
       \/ bkind = "validate" /\ path_check(binput) = NoExc /\ binput.content # "not_zip"
    /\ handles' = handles + 1
    /\ bpc' = "in_with"
    /\ UNCHANGED <<bkind, binput, bres, bcalls, session_vars, item_vars>>

\* The with block of _extract_from_ncx runs to its return or to an exception.
BodyNcx ==
    /\ bpc = "in_with" /\ bkind = "ncx"
    /\ bres' = Some(extract_from_ncx(binput))
    /\ bpc' = "exiting"
    /\ UNCHANGED <<bkind, binput, handles, bcalls, session_vars, item_vars>>

\* The with block of _extract_from_opf runs to its return or to an exception.
BodyOpf ==
    /\ bpc = "in_with" /\ bkind = "opf"
    /\ bres' = Some(extract_from_opf(binput))
    /\ bpc' = "exiting"
    /\ UNCHANGED <<bkind, binput, handles, bcalls, session_vars, item_vars>>

\* _validate_file raises before the try block.
ValidatePathFails ==
    /\ bpc = "ready" /\ bkind = "validate"
    /\ path_check(binput) # NoExc
    /\ bres' = Some(Raises(path_check(binput).msg))
    /\ bpc' = "done"
    /\ UNCHANGED <<bkind, binput, handles, bcalls, session_vars, item_vars>>

\* zipfile.ZipFile(self.epub_path, 'r') raises BadZipFile: no ZipFile object
\* comes to exist and the with block is not entered.
OpenZipFails ==
    /\ bpc = "ready" /\ bkind = "validate"
    /\ path_check(binput) = NoExc /\ binput.content = "not_zip"
    /\ bres' = Some(Raises(zip_check(binput).msg))
    /\ bpc' = "done"
    /\ UNCHANGED <<bkind, binput, handles, bcalls, session_vars, item_vars>>

\* The with block of _validate_file runs to its end or to an exception.
BodyValidate ==
    /\ bpc = "in_with" /\ bkind = "validate"
    /\ bres' = Some(IF zip_check(binput) = NoExc THEN Returns(NONE)
                    ELSE Raises(zip_check(binput).msg))
    /\ bpc' = "exiting"
    /\ UNCHANGED <<bkind, binput, handles, bcalls, session_vars, item_vars>>

\* The archive is closed by an epub.close() at the end of the block, which a
\* `return None` or an exception inside the block does not reach.
CloseZip_at_end_of_block ==
    /\ bpc = "exiting"
    /\ handles' = IF bres[1].kind = "return" /\ (bres[1].val # NONE \/ bkind = "validate")
                  THEN handles - 1 ELSE handles
    /\ bpc' = "done"
    /\ UNCHANGED <<bkind, binput, bres, bcalls, session_vars, item_vars>>

\* The with statement is left: ZipFile.__exit__ closes the archive, whatever
\* way the block ended.
CloseZip ==
    /\ bpc = "exiting"
    /\ handles' = handles - 1
    /\ bpc' = "done"
    /\ UNCHANGED <<bkind, binput, bres, bcalls, session_vars, item_vars>>

\* The same operation is run once more on the same input.
RunAgain ==
    /\ bpc = "done" /\ bcalls < MaxRuns
    /\ bpc' = "ready" /\ bres' = NONE /\ bcalls' = bcalls + 1
    /\ UNCHANGED <<bkind, binput, handles, session_vars, item_vars>>

NextBackend ==
    \/ CallEpubMeta
    \/ CallCalibre
    \/ CallEbooklib
    \/ CallTika
    \/ OpenZip
    \/ BodyNcx
    \/ BodyOpf
    \/ ValidatePathFails
    \/ OpenZipFails
    \/ BodyValidate
    \/ CloseZip
    \/ RunAgain

SpecBackend == InitBackend /\ [][NextBackend]_vars

(***************************************************************************)
(* Vocabulary of the properties                                            *)
(***************************************************************************)
\* The nodes of a list of trees (TOCItem objects or mappings), at every depth.
RECURSIVE NodesOf(_)
NodesOf(items) ==
    UNION {{items[i]} \cup NodesOf(items[i].children) : i \in 1..Len(items)}

\* Every child's level is strictly greater than its parent's.
StrictLevels(items) ==
    \A n \in NodesOf(items) : \A i \in 1..Len(n.children) :
        n.level.n < n.children[i].level.n

\* A node as the data model wants it: title and href non-empty once trimmed,
\* level a non-negative integer.
ProperNode(n) ==
    /\ n.title.k = "str" /\ Strip(n.title.s) # <<>>
    /\ n.href.k = "str" /\ Strip(n.href.s) # <<>>
    /\ n.level.k = "int" /\ n.level.n >= 0

ActiveNames == [i \in 1..Len(active_methods) |-> active_methods[i].name]

\* Method n, invoked on this archive, returns a list that extract_toc accepts.
WouldSucceed(n) ==
    /\ archive[n].kind = "return"
    /\ archive[n].val # NONE
    /\ archive[n].val[1] # <<>>
    /\ validate_toc_structure(archive[n].val[1]) = NoExc

TreeOf(n) == archive[n].val[1]

ErrorNames(d) == {d[i].name : i \in 1..Len(d)}

EmptyOrAbsent(n) == archive[n] = Absent \/ archive[n] = Returns(Some(<<>>))

(***************************************************************************)
(* Properties of the session (specification Spec)                          *)
(***************************************************************************)
\* C1: when the session was constructed with the list [A, B] and A and B would
\* each return a valid tree, with different content, on this archive, the tree
\* extract_toc returns is A's: the order of the requested list decides.
C1_RequestedOrderDecides ==
    (/\ pc = "returned"
     /\ extraction_methods # NONE
     /\ Len(extraction_methods[1]) = 2
     /\ extraction_methods[1][1] # extraction_methods[1][2]
     /\ Range(extraction_methods[1]) \subseteq MethodNames
     /\ WouldSucceed(extraction_methods[1][1])
     /\ WouldSucceed(extraction_methods[1][2])
     /\ TreeOf(extraction_methods[1][1]) # TreeOf(extraction_methods[1][2]))
    => ret = Some(ToDicts(TreeOf(extraction_methods[1][1])))

\* C2: what extract_toc returns is the tree of the first method, in the order of
\* active_methods, whose result is a non-empty list the validator accepts; the
\* methods invoked by that call are exactly those up to that one, in order, so
\* none after it is invoked.
C2_FirstValidWins ==
    pc = "returned" =>
        /\ invoked # <<>>
        /\ invoked = SubSeq(ActiveNames, 1, Len(invoked))
        /\ WouldSucceed(invoked[Len(invoked)])
        /\ \A i \in 1..(Len(invoked) - 1) : ~WouldSucceed(invoked[i])
        /\ ret = Some(ToDicts(TreeOf(invoked[Len(invoked)])))
        /\ toc = Some(TreeOf(invoked[Len(invoked)]))

\* C2 witness: a call returned the tree of the third method tried, after an
\* absent one and a rejected one, while later methods that would succeed were
\* left uninvoked.
C2_Witness ==
    /\ pc = "returned"
    /\ Len(invoked) = 3
    /\ \E i \in 1..2 : archive[invoked[i]] = Returns(Some(TreeBadLevel))
    /\ \E i \in 4..Len(ActiveNames) : WouldSucceed(ActiveNames[i])

\* C3: when every method of the active list returns None, extract_toc raises
\* ExtractionError and the message names every method of the active list.
C3_AllAbsentNamesEveryMethod ==
    (/\ pc = "raised"
     /\ \A n \in Range(ActiveNames) : archive[n] = Absent)
    => /\ exc.exc = "ExtractionError"
       /\ Range(ActiveNames) \subseteq ErrorNames(exc.details)

\* C4: once an extract_toc call of the session has returned, a later call invokes
\* no method and returns the same result.
C4_SecondCallInvokesNothing ==
    (succeeded # NONE /\ calls > succeeded[1].call)
    => /\ invoked = <<>>
       /\ pc \in {"returned", "raised"} => ret = Some(succeeded[1].result)

\* C5: in every tree extract_toc returns, and in every tree it stores as
\* self.toc, each node's level is strictly less than each of its children's,
\* at every depth.
C5_LevelsStrictlyIncrease ==
    /\ toc # NONE => StrictLevels(toc[1])
    /\ ret # NONE => StrictLevels(ret[1])

\* C5 witness: a returned tree with a node two levels below a top-level node.
C5_Witness ==
    /\ pc = "returned"
    /\ \E n \in NodesOf(ret[1]) : \E i \in 1..Len(n.children) :
          n.children[i].children # <<>>

\* C6: extract_toc never returns (or stores) an empty list, and a method that
\* returns an empty list is handled like one that returns None: it is not the
\* method whose result is returned, nothing is recorded for it, the methods
\* after it are tried, and when none succeeds the call raises ExtractionError.
C6_EmptyIsAbsent ==
    /\ ret # NONE => ret[1] # <<>>
    /\ toc # NONE => toc[1] # <<>>
    /\ \A i \in 1..Len(invoked) : EmptyOrAbsent(invoked[i]) =>
          /\ invoked[i] \notin ErrorNames(errors)
          /\ pc = "returned" => i < Len(invoked)
          /\ pc = "loop" => idx > i
    /\ pc = "raised" =>
          /\ exc.exc = "ExtractionError"
          /\ invoked = ActiveNames
          /\ ret = NONE

\* C6 witness: a method returned an empty list, the next one was tried, and the
\* call ended (with a tree from a later method, or with ExtractionError).
C6_Witness ==
    /\ pc \in {"returned", "raised"}
    /\ \E i \in 1..(Len(invoked) - 1) : archive[invoked[i]] = Returns(Some(<<>>))
    /\ \E n \in Range(invoked) : archive[n] = Absent

\* C7: every node of a tree extract_toc returns has a title and an href that are
\* non-empty after trimming and a non-negative integer level (a candidate with
\* a node that is not so is rejected).
C7_ReturnedNodesProper ==
    ret # NONE => \A n \in NodesOf(ret[1]) : ProperNode(n)

(***************************************************************************)
(* Properties of TOCItem (specification SpecItem)                          *)
(***************************************************************************)
EmptyStr(v) == v = PyStr(<<>>)
BadLevel(v) == v.k # "int" \/ v.n < 0

\* C8: TOCItem(title, href, level, ...) raises ValidationError whenever the
\* title is empty, the href is empty, or the level is negative or not an
\* integer; no object with such a field is created.
C8_ConstructorRejectsEmptyFields ==
    /\ (/\ ipc \in {"built", "failed"}
        /\ DOMAIN iarg = {"title", "href", "level", "children"}
        /\ EmptyStr(iarg.title) \/ EmptyStr(iarg.href) \/ BadLevel(iarg.level))
       => iexc.exc = "ValidationError" /\ iobj = NONE
    /\ iobj # NONE =>
          \A n \in NodesOf(iobj) :
              ~EmptyStr(n.title) /\ ~EmptyStr(n.href) /\ ~BadLevel(n.level)

\* C9: for every TOCItem n, from_dict(n.to_dict()) raises nothing and is a node
\* equal to n: same title, href, level, description, and equal children in
\* the same order, at every depth.
C9_FromDictOfToDict ==
    ipc = "back" => iexc = NoExc /\ iback = iobj

\* C9 witness: the round trip of a node with a description, two children in a
\* given order, and a grandchild.
C9_Witness ==
    /\ ipc = "back"
    /\ iobj[1].description # PyNone
    /\ Len(iobj[1].children) = 2
    /\ iobj[1].children[1] # iobj[1].children[2]
    /\ iobj[1].children[1].children # <<>>

\* The serializer's schema: the keys title, href, level, children, and
\* description only when set, with the values a node holds (a non-empty
\* string, a string, a non-negative integer, a string), at every depth.
RECURSIVE InSchema(_)
InSchema(d) ==
    /\ DOMAIN d \in {{"title", "href", "level", "children"},
                     {"title", "href", "level", "children", "description"}}
    /\ d.title.k = "str" /\ d.title.s # <<>>
    /\ d.href.k = "str"
    /\ d.level.k = "int" /\ d.level.n >= 0
    /\ "description" \in DOMAIN d => d.description.k = "str"
    /\ \A i \in 1..Len(d.children) : InSchema(d.children[i])

\* C10: for every mapping d in the serializer's schema, from_dict(d) raises
\* nothing and from_dict(d).to_dict() equals d.
C10_ToDictOfFromDict ==
    (ipc \in {"built", "failed", "dict", "back"} /\ InSchema(iarg))
    => /\ ipc # "failed"
       /\ ipc \in {"dict", "back"} => idict = Some(iarg)

\* C10 witness: the round trip of a mapping with a description, two children
\* in a given order, and a grandchild.
C10_Witness ==
    /\ ipc = "dict"
    /\ InSchema(iarg)
    /\ "description" \in DOMAIN iarg
    /\ Len(iarg.children) = 2
    /\ iarg.children[1] # iarg.children[2]
    /\ iarg.children[1].children # <<>>

(***************************************************************************)
(* Properties of construction (specification Spec)                         *)
(***************************************************************************)
\* The requested list is given and holds no known method name.
NoRecognizedMethod ==
    /\ extraction_methods # NONE
    /\ Range(extraction_methods[1]) \cap MethodNames = {}

\* C11: constructing the session with an explicit list that is empty, or that
\* holds no recognized method name, raises ValidationError before the path is
\* examined or opened: the error is the one the list decides, whatever the
\* file is, and the file was not opened.
C11_MethodListCheckedFirst ==
    NoRecognizedMethod =>
        /\ init_exc = Raise("ValidationError",
                            IF extraction_methods[1] = <<>>
                            THEN "No extraction methods specified"
                            ELSE "No valid extraction methods found")
        /\ ~zip_opened

\* C11 witness: the list ["bogus"] with a path that does not exist, rejected
\* for its list.
C11_Witness ==
    /\ extraction_methods = Some(<<"bogus">>)
    /\ ~epub_file.exists
    /\ init_exc.msg = "No valid extraction methods found"

\* C12: when the constructor gets as far as _validate_file, a path that does not
\* exist, that is a directory, or whose extension is not .epub makes it raise
\* ValidationError without opening the file as a ZIP; for the path that does
\* not exist the message is "File not found".
C12_PathRejectedUnopened ==
    (/\ ~NoRecognizedMethod
     /\ \/ ~epub_file.exists
        \/ epub_file.is_dir
        \/ Lower(epub_file.suffix) # ".epub")
    => /\ init_exc.exc = "ValidationError"
       /\ ~zip_opened
       /\ ~epub_file.exists => init_exc.msg = "File not found"

\* C12 witness: a missing path named .epub, rejected with "File not found" and
\* never opened.
C12_Witness ==
    /\ ~NoRecognizedMethod
    /\ ~epub_file.exists
    /\ epub_file.suffix = ".epub"
    /\ init_exc = Raise("ValidationError", "File not found")
    /\ ~zip_opened

\* C13: for an existing regular file named .epub, _validate_file raises
\* StructureError when the file is not a ZIP archive, when
\* META-INF/container.xml is missing and when container.xml has no rootfile;
\* and the constructor never ends with an error of a kind other than
\* ValidationError and StructureError.
C13_StructureErrors ==
    /\ (/\ ~NoRecognizedMethod
        /\ epub_file.exists /\ ~epub_file.is_dir
        /\ Lower(epub_file.suffix) = ".epub"
        /\ epub_file.content \in {"not_zip", "no_container", "no_rootfiles"})
       => init_exc.exc = "StructureError" /\ zip_opened
    /\ init_exc.exc \in {"none", "ValidationError", "StructureError"}

\* C13 witness: an existing .epub file whose container.xml declares no
\* rootfile, opened and rejected with StructureError.
C13_Witness ==
    /\ epub_file.exists /\ ~epub_file.is_dir
    /\ epub_file.content = "no_rootfiles"
    /\ zip_opened
    /\ init_exc.exc = "StructureError"

\* C18: without a requested list the active list is the six methods in the
\* order epub_meta, ncx, opf, ebooklib, tika, calibre; with a requested list it
\* holds exactly the recognized names of that list, each once; and extract_toc
\* invokes no method outside the active list.
C18_ActiveListIsRecognizedSubset ==
    /\ (init_exc = NoExc /\ extraction_methods = NONE) =>
          ActiveNames = <<"epub_meta", "ncx", "opf", "ebooklib", "tika", "calibre">>
    /\ (init_exc = NoExc /\ extraction_methods # NONE) =>
          /\ Range(ActiveNames) = Range(extraction_methods[1]) \cap MethodNames
          /\ \A i, j \in 1..Len(ActiveNames) : ActiveNames[i] = ActiveNames[j] => i = j
    /\ Range(invoked) \subseteq Range(ActiveNames)

\* C18 witness: a session constructed with a list naming the same method twice
\* has invoked that method.
C18_Witness ==
    /\ init_exc = NoExc
    /\ extraction_methods # NONE
    /\ Len(extraction_methods[1]) = 2
    /\ extraction_methods[1][1] = extraction_methods[1][2]
    /\ invoked = <<extraction_methods[1][1]>>

(***************************************************************************)
(* Properties of save_toc_to_json and print_toc (specification Spec)       *)
(***************************************************************************)
\* C14: save_toc_to_json and print_toc raise ValidationError, and write and
\* print nothing, unless an earlier extract_toc call of the session has
\* returned; a call that raised ExtractionError does not enable them.
C14_SaveAndPrintNeedSuccess ==
    (io.op # "none" /\ succeeded = NONE) =>
        /\ io.exc = Raise("ValidationError", "TOC not extracted")
        /\ io.doc = NONE
        /\ io.out = <<>>

\* C14 witness: print_toc refused after an extract_toc call that raised
\* ExtractionError.
C14_Witness ==
    /\ pc = "raised"
    /\ exc.exc = "ExtractionError"
    /\ io.op = "print"
    /\ io.exc.exc = "ValidationError"

Member(obj, k) == obj.items[CHOOSE i \in 1..Len(obj.keys) : obj.keys[i] = k]

\* C16: the document save_toc_to_json writes is a mapping with the keys
\* metadata and toc; metadata is a mapping with title, authors (a list),
\* file_name and file_size; toc is the list of the top-level items as nested
\* mappings, in order.
C16_SavedHasMetadataAndToc ==
    (io.op = "save" /\ io.exc = NoExc) =>
        /\ io.doc[1].j = "object"
        /\ Range(io.doc[1].keys) = {"metadata", "toc"}
        /\ Member(io.doc[1], "metadata").j = "object"
        /\ {"title", "authors", "file_name", "file_size"}
              \subseteq Range(Member(io.doc[1], "metadata").keys)
        /\ Member(Member(io.doc[1], "metadata"), "authors").j = "array"
        /\ Member(io.doc[1], "toc") = json_dump(ToDicts(toc[1]))

(***************************************************************************)
(* Properties of the loop's error handling (specification Spec)            *)
(***************************************************************************)
\* C17: when extract_toc raises ExtractionError, the error carries the failure
\* reason of every method that failed: each invoked method that hit an
\* unexpected condition is listed by name with its message.
C17_AggregateNamesEveryFailure ==
    pc = "raised" =>
        \A n \in Range(invoked) :
            archive[n].msg # "" =>
                \E i \in 1..Len(exc.details) :
                    /\ exc.details[i].name = n
                    /\ exc.details[i].error.msg = archive[n].msg

\* Method n returns a non-empty list that breaks the level rule.
ReturnsInvalid(n) ==
    /\ archive[n].kind = "return"
    /\ ResultTruthy(archive[n].val)
    /\ ~StrictLevels(archive[n].val[1])

\* C19: when a method returns a non-empty list that fails structure validation,
\* extract_toc does not fail and neither stores nor returns that list: the
\* failure is recorded under the method's name and the next method of the
\* active list is tried.
C19_InvalidResultSkipped ==
    \A i \in 1..Len(invoked) : ReturnsInvalid(invoked[i]) =>
        /\ \E k \in 1..Len(errors) :
              /\ errors[k].name = invoked[i]
              /\ errors[k].error.exc = "ValidationError"
        /\ exc.exc # "ValidationError"
        /\ pc = "loop" => idx > i
        /\ pc = "returned" => i < Len(invoked)
        /\ pc = "raised" => Len(invoked) = Len(ActiveNames)
        /\ toc # Some(TreeOf(invoked[i]))
        /\ ret # Some(ToDicts(TreeOf(invoked[i])))

\* C19 witness: the first method's list was rejected and a later method's list
\* was returned.
C19_Witness ==
    /\ pc = "returned"
    /\ Len(invoked) >= 2
    /\ ReturnsInvalid(invoked[1])
    /\ invoked[1] \in ErrorNames(errors)

\* C20: a method that raises never ends the call: its error is recorded, the
\* methods after it are tried in the order of the active list, and the only
\* error extract_toc ends with is the ExtractionError raised after the last
\* method of the list.
C20_RaisingMethodNeverAborts ==
    /\ exc.exc \in {"none", "ExtractionError"}
    /\ pc = "raised" => (exc.exc = "ExtractionError" /\ invoked = ActiveNames)
    /\ \A i \in 1..Len(invoked) : archive[invoked[i]].kind = "raise" =>
          /\ invoked[i] = ActiveNames[i]
          /\ \E k \in 1..Len(errors) :
                /\ errors[k].name = invoked[i]
                /\ errors[k].error.msg = archive[invoked[i]].msg
          /\ pc = "loop" => idx = Len(invoked) + 1
          /\ pc = "returned" => i < Len(invoked)

\* C20 witness: the first method raised, two more were tried after it and the
\* last one's list was returned.
C20_Witness ==
    /\ pc = "returned"
    /\ Len(invoked) = 3
    /\ archive[invoked[1]].kind = "raise"
    /\ invoked[1] \in ErrorNames(errors)

\* C22: every extract_toc call terminates, with a returned tree or with
\* ExtractionError, and invokes each method of the active list at most once.
C22_CallTerminatesWithoutRetry ==
    /\ [](\A i, j \in 1..Len(invoked) : invoked[i] = invoked[j] => i = j)
    /\ [](pc = "returned" => ret # NONE)
    /\ [](pc = "raised" => exc.exc = "ExtractionError")
    /\ [](pc = "loop" => <>(pc \in {"returned", "raised"}))

\* C22 witness: a call ended with ExtractionError after all six methods were
\* invoked, one of them having raised.
C22_Witness ==
    /\ pc = "raised"
    /\ Len(invoked) = 6
    /\ \E n \in Range(invoked) : archive[n].kind = "raise"

(***************************************************************************)
(* Properties of the extraction methods (specification SpecBackend)        *)
(***************************************************************************)
\* A run of operation k has ended.
Ran(k) == bkind = k /\ bpc = "done"

\* The position of the nearest entry before j whose level is lower, or 0.
ParentOf(es, j) ==
    IF \E k \in 1..(j - 1) : es[k].level.n < es[j].level.n
    THEN CHOOSE k \in 1..(j - 1) :
            /\ es[k].level.n < es[j].level.n
            /\ \A m \in (k + 1)..(j - 1) : es[m].level.n >= es[j].level.n
    ELSE 0

\* The positions whose parent is p, in input order.
ChildrenOf(es, p) == SelectSeq([j \in 1..Len(es) |-> j], LAMBDA j : ParentOf(es, j) = p)

\* The tree the parent rule gives entry i, and the forest of all entries.
RECURSIVE RuleTree(_, _)
RuleTree(es, i) ==
    [title |-> es[i].title, href |-> es[i].href, level |-> es[i].level,
     children |-> [c \in 1..Len(ChildrenOf(es, i)) |-> RuleTree(es, ChildrenOf(es, i)[c])],
     description |-> PyNone]

RuleForest(es) == [c \in 1..Len(ChildrenOf(es, 0)) |-> RuleTree(es, ChildrenOf(es, 0)[c])]

\* The nodes of a forest in pre-order, as (title, href, level) entries.
RECURSIVE PreOrder(_)
PreOrder(items) ==
    IF items = <<>> THEN <<>>
    ELSE << [title |-> Head(items).title, href |-> Head(items).href,
             level |-> Head(items).level] >>
         \o PreOrder(Head(items).children) \o PreOrder(Tail(items))

\* A flat entry with a non-empty title and a non-negative integer level.
GoodEntry(e) ==
    /\ e.title.k = "str" /\ e.title.s # <<>>
    /\ e.level.k = "int" /\ e.level.n >= 0

\* The entries the library's list stands for.
MetaEntries == [i \in 1..Len(binput[1]) |-> MetaEntry(binput[1][i])]

\* The entries the tool's lines stand for: title and href around the arrow,
\* the level being the indentation.
LineEntries ==
    [i \in 1..Len(binput.lines) |->
        [title |-> PyStr(<<Head(binput.lines[i].text)>>),
         href |-> PyStr(<<binput.lines[i].text[Len(binput.lines[i].text)]>>),
         level |-> PyInt(binput.lines[i].indent)]]

\* Every line the tool printed is a `title -> href` line.
AllArrowLines ==
    \A i \in 1..Len(binput.lines) : Len(binput.lines[i].text) > Len(Arrow)

\* A forest without the levels of its nodes: titles, hrefs and nesting.
RECURSIVE Shape(_)
Shape(items) ==
    [i \in 1..Len(items) |->
        [title |-> items[i].title, href |-> items[i].href,
         children |-> Shape(items[i].children)]]

\* The titles and hrefs of a sequence of entries.
Labels(es) == [i \in 1..Len(es) |-> [title |-> es[i].title, href |-> es[i].href]]

\* C21: on a flat sequence of entries with non-empty titles and non-negative
\* integer levels, _extract_from_epub_meta and _extract_from_calibre build the
\* same forest, that of the parent rule (the parent of an entry is the nearest
\* entry before it with a strictly lower level, an entry without one is a
\* root), and the pre-order of the forest is the input sequence.
C21_StackBuildsParentRuleForest ==
    /\ (/\ Ran("epub_meta") /\ binput # NONE /\ binput[1] # <<>>
        /\ \A i \in 1..Len(MetaEntries) : GoodEntry(MetaEntries[i]))
       => /\ bres[1].val # NONE
          /\ Shape(bres[1].val[1]) = Shape(RuleForest(MetaEntries))
          /\ Labels(PreOrder(bres[1].val[1])) = Labels(MetaEntries)
    /\ (/\ Ran("calibre") /\ binput.exit = 0 /\ binput.lines # <<>>
        /\ AllArrowLines)
       => /\ bres[1].val # NONE
          /\ Shape(bres[1].val[1]) = Shape(RuleForest(LineEntries))
          /\ Labels(PreOrder(bres[1].val[1])) = Labels(LineEntries)

\* The list a run returned: empty when it returned None.
ResultList == IF bres[1].val = NONE THEN <<>> ELSE bres[1].val[1]

\* The index paths of the entries of a source forest, in document order.
RECURSIVE PathsOf(_)
RECURSIVE PathsFrom(_, _)
PathsFrom(f, i) ==
    IF i > Len(f) THEN <<>>
    ELSE << <<i>> >> \o [k \in 1..Len(PathsOf(f[i].kids)) |-> <<i>> \o PathsOf(f[i].kids)[k]]
         \o PathsFrom(f, i + 1)
PathsOf(f) == PathsFrom(f, 1)

RECURSIVE NodeAt(_, _)
NodeAt(f, p) == IF Len(p) = 1 THEN f[p[1]] ELSE NodeAt(f[p[1]].kids, Tail(p))

Labelled(n) == n.label # NONE /\ n.label[1] # <<>>

\* The entry at p and every entry above it have a label.
KeptPath(f, p) == \A k \in 1..Len(p) : Labelled(NodeAt(f, SubSeq(p, 1, k)))

\* The labelled entries none of whose ancestors lacks a label, in document order.
KeptEntries(f) ==
    LET ps == SelectSeq(PathsOf(f), LAMBDA p : KeptPath(f, p)) IN
    [i \in 1..Len(ps) |->
        [title |-> PyStr(NodeAt(f, ps[i]).label[1]),
         href |-> PyStr(GetOpt(NodeAt(f, ps[i]).href, <<>>))]]

\* C23: _extract_from_ncx drops a navPoint without a non-empty text label
\* together with all its descendants: the nodes of the result are, in document
\* order, the labelled navPoints none of whose ancestors lacks a label.
C23_UnlabelledSubtreeDropped ==
    (Ran("ncx") /\ binput.file = "ok" /\ binput.nav_map # NONE)
    => Labels(PreOrder(ResultList)) = KeptEntries(binput.nav_map[1])

\* C23 witness: a navPoint without a label but with a labelled child, nested
\* in a labelled navPoint that has a later child, was dropped and the run
\* returned a tree.
C23_Witness ==
    /\ Ran("ncx") /\ binput.nav_map # NONE
    /\ bres[1].val # NONE
    /\ \E i \in 1..Len(binput.nav_map[1]) :
          /\ Labelled(binput.nav_map[1][i])
          /\ Len(binput.nav_map[1][i].kids) = 2
          /\ ~Labelled(binput.nav_map[1][i].kids[1])
          /\ binput.nav_map[1][i].kids[1].kids # <<>>

\* The levels of a forest are the nesting depths, d at its top.
RECURSIVE DepthLevels(_, _)
DepthLevels(items, d) ==
    \A i \in 1..Len(items) :
        /\ items[i].level = PyInt(d)
        /\ DepthLevels(items[i].children, d + 1)

\* C25: in every tree _extract_from_ncx, _extract_from_ebooklib and
\* _extract_from_tika return, a node's level is its nesting depth: 0 at the
\* top, and each child's level is its parent's plus one.
C25_LevelIsDepth ==
    (bkind \in {"ncx", "ebooklib", "tika"} /\ bpc = "done")
    => DepthLevels(ResultList, 0)

\* C25 witness: _extract_from_tika returned a tree three levels deep.
C25_Witness ==
    /\ Ran("tika")
    /\ bres[1].val # NONE
    /\ \E i \in 1..Len(ResultList) :
          /\ ResultList[i].children # <<>>
          /\ ResultList[i].children[1].children # <<>>

\* C24: for a package document whose spine has n itemrefs, _extract_from_opf
\* returns exactly n nodes in spine order, each with level 0 and no children,
\* the k-th titled "Chapter k".
C24_OneChapterPerItemref ==
    (/\ Ran("opf") /\ binput.file = "ok"
     /\ binput.spine # NONE /\ binput.spine[1] # <<>>
     /\ binput.manifest # NONE)
    => /\ Len(ResultList) = Len(binput.spine[1])
       /\ \A k \in 1..Len(ResultList) :
             /\ ResultList[k].title = ChapterTitle(k)
             /\ ResultList[k].level = PyInt(0)
             /\ ResultList[k].children = <<>>

\* C27: no ZipFile on the archive is open while control is outside
\* _validate_file and outside the extraction methods: whatever way a run
\* ends, its handle is closed when it has ended, so none is carried from one
\* run to the next.
C27_NoHandleOutsideRuns ==
    /\ handles \in {0, 1}
    /\ bpc \in {"off", "ready", "done"} => handles = 0

\* C27 witness: a second run of _extract_from_opf on a file that is not XML has
\* ended, the first having held a handle.
C27_Witness ==
    /\ Ran("opf") /\ bcalls = 2
    /\ binput.file = "malformed"
    /\ bres[1].msg # ""
    /\ handles = 0

\* C26: _extract_from_calibre returns None whenever ebook-meta exits with a
\* non-zero status or prints a line that is not a `title -> href` line, so
\* that such output is never part of a list the method returns.
C26_UnparsableOutputIsAbsent ==
    (/\ Ran("calibre")
     /\ \/ binput.exit # 0
        \/ \E i \in 1..Len(binput.lines) :
              /\ binput.lines[i].text # <<>>
              /\ Len(binput.lines[i].text) <= Len(Arrow))
    => bres[1].val = NONE

\* C28: every top-level item of the list extract_toc returns has level 0.
C28_TopLevelIsZero ==
    (pc = "returned" /\ ret # NONE) =>
        \A i \in 1..Len(ret[1]) : ret[1][i].level = PyInt(0)

\* C29: self.toc changes only in the step in which extract_toc succeeds, and
\* then to the list whose mapping form the call returns; a call that ends in
\* ExtractionError, a result the validator rejects, save_toc_to_json and
\* print_toc leave it as it was; it is always None or a list the validator
\* accepts, and what a successful call returned is its mapping form.
C29_TocChangesOnlyOnSuccess ==
    /\ [](toc = NONE \/ validate_toc_structure(toc[1]) = NoExc)
    /\ [](pc = "returned" => (toc # NONE /\ ret = Some(ToDicts(toc[1]))))
    /\ []((pc = "raised" /\ succeeded = NONE) => toc = NONE)
    /\ [][toc' # toc => /\ pc = "loop" /\ pc' = "returned"
                        /\ toc' # NONE
                        /\ ret' = Some(ToDicts(toc'[1]))]_vars

\* C29 witness: the first method's list was rejected, a later method's list
\* was stored and returned, and save_toc_to_json has run since.
C29_Witness ==
    /\ pc = "returned" /\ toc # NONE
    /\ Len(invoked) >= 2 /\ ReturnsInvalid(invoked[1])
    /\ io.op = "save" /\ io.exc = NoExc

\* C30: when an item of epub_meta's list has an empty title, a negative level
\* or a level that is no int, _extract_from_epub_meta returns None: it returns
\* no list built from the other items, and it raises nothing.
C30_BadItemMakesAbsent ==
    (/\ Ran("epub_meta") /\ binput # NONE
     /\ \E i \in 1..Len(MetaEntries) : ~GoodEntry(MetaEntries[i]))
    => /\ bres[1].kind = "return"
       /\ bres[1].val = NONE

\* C30 witness: a list of three items, the second with a level that is no int
\* or an empty title, the first and the third well formed.
C30_Witness ==
    /\ Ran("epub_meta") /\ binput # NONE
    /\ Len(MetaEntries) = 3
    /\ GoodEntry(MetaEntries[1]) /\ ~GoodEntry(MetaEntries[2]) /\ GoodEntry(MetaEntries[3])
    /\ MetaEntries[2].level.n >= 0
    /\ bres[1].val = NONE

====
